---- MODULE Spec2Model ----
(***************************************************************************)
(* Nutrition API (src/main.py, src/schemas.py): the payload validation,   *)
(* the nutrient aggregator calc_totals and the five /api handlers over a  *)
(* document store with a food and a meal collection.                      *)
(*                                                                         *)
(* Python floats are IEEE-754 binary64.  A float is modelled exactly, as   *)
(* a 53-bit significand and a binary exponent; every arithmetic step of    *)
(* calc_totals rounds to nearest, ties to even, as the hardware does.      *)
(* Significands do not fit a 32-bit integer, so naturals are kept as       *)
(* little-endian sequences of limbs.                                       *)
(***************************************************************************)
EXTENDS Integers, Sequences, FiniteSets, TLC

(***************************************************************************)
(* Natural numbers of arbitrary size: little-endian limbs, no leading     *)
(* zero limb, zero is the empty sequence.                                  *)
(***************************************************************************)
LimbBits == 15
Base == 2^LimbBits

RECURSIVE BNorm(_)
BNorm(a) ==
    IF a = <<>> THEN a
    ELSE IF a[Len(a)] = 0 THEN BNorm(SubSeq(a, 1, Len(a) - 1))
    ELSE a

RECURSIVE BFromInt(_)
BFromInt(n) ==
    IF n = 0 THEN <<>> ELSE <<n % Base>> \o BFromInt(n \div Base)

RECURSIVE BToInt(_)
BToInt(a) ==
    IF a = <<>> THEN 0 ELSE Head(a) + Base * BToInt(Tail(a))

BRest(a) == IF a = <<>> THEN a ELSE Tail(a)
BLow(a) == IF a = <<>> THEN 0 ELSE Head(a)

RECURSIVE BAddC(_, _, _)
BAddC(a, b, c) ==
    IF a = <<>> /\ b = <<>> THEN (IF c = 0 THEN <<>> ELSE <<c>>)
    ELSE LET s == BLow(a) + BLow(b) + c
         IN  <<s % Base>> \o BAddC(BRest(a), BRest(b), s \div Base)

BAdd(a, b) == BAddC(a, b, 0)

\* a - b for a >= b
RECURSIVE BSubC(_, _, _)
BSubC(a, b, c) ==
    IF a = <<>> THEN <<>>
    ELSE LET d == Head(a) - BLow(b) - c
         IN  IF d < 0 THEN <<d + Base>> \o BSubC(Tail(a), BRest(b), 1)
             ELSE <<d>> \o BSubC(Tail(a), BRest(b), 0)

BSub(a, b) == BNorm(BSubC(a, b, 0))

\* -1, 0, 1 as a < b, a = b, a > b
RECURSIVE BCmpAt(_, _, _)
BCmpAt(a, b, i) ==
    IF i = 0 THEN 0
    ELSE IF a[i] < b[i] THEN -1
    ELSE IF a[i] > b[i] THEN 1
    ELSE BCmpAt(a, b, i - 1)

BCmp(a, b) ==
    IF Len(a) < Len(b) THEN -1
    ELSE IF Len(a) > Len(b) THEN 1
    ELSE BCmpAt(a, b, Len(a))

\* a * k + c for 0 <= k, c < Base
RECURSIVE BMulSmallC(_, _, _)
BMulSmallC(a, k, c) ==
    IF a = <<>> THEN (IF c = 0 THEN <<>> ELSE <<c>>)
    ELSE LET p == Head(a) * k + c
         IN  <<p % Base>> \o BMulSmallC(Tail(a), k, p \div Base)

BMulSmall(a, k) == BNorm(BMulSmallC(a, k, 0))

BLimbUp(a) == IF a = <<>> THEN a ELSE <<0>> \o a

RECURSIVE BMul(_, _)
BMul(a, b) ==
    IF b = <<>> \/ a = <<>> THEN <<>>
    ELSE BAdd(BMulSmall(a, Head(b)), BLimbUp(BMul(a, Tail(b))))

\* quotient and remainder of a by k, 0 < k < Base; limbs taken from the top
RECURSIVE BDivSmallAt(_, _, _, _)
BDivSmallAt(a, k, i, r) ==
    IF i = 0 THEN [q |-> <<>>, r |-> r]
    ELSE LET cur == r * Base + a[i]
             rest == BDivSmallAt(a, k, i - 1, cur % k)
         IN  [q |-> rest.q \o <<cur \div k>>, r |-> rest.r]

BDivSmall(a, k) ==
    LET d == BDivSmallAt(a, k, Len(a), 0)
    IN  [q |-> BNorm(d.q), r |-> d.r]

RECURSIVE BZeros(_)
BZeros(w) == IF w = 0 THEN <<>> ELSE <<0>> \o BZeros(w - 1)

\* a * 2^n
BShl(a, n) ==
    IF a = <<>> \/ n = 0 THEN a
    ELSE BZeros(n \div LimbBits) \o BMulSmall(a, 2^(n % LimbBits))

\* floor(a / 2^n)
BShr(a, n) ==
    LET w == n \div LimbBits
    IN  IF n = 0 THEN a
        ELSE IF w >= Len(a) THEN <<>>
        ELSE BDivSmall(SubSeq(a, w + 1, Len(a)), 2^(n % LimbBits)).q

RECURSIVE IntBitLen(_)
IntBitLen(n) == IF n = 0 THEN 0 ELSE 1 + IntBitLen(n \div 2)

BBitLen(a) ==
    IF a = <<>> THEN 0 ELSE LimbBits * (Len(a) - 1) + IntBitLen(a[Len(a)])

BOdd(a) == a # <<>> /\ Head(a) % 2 = 1

BOne == <<1>>

Min(a, b) == IF a < b THEN a ELSE b

\* bit n of a (bit 0 is the lowest), and whether any bit below n is set
BBit(a, n) ==
    LET i == n \div LimbBits + 1
    IN  IF i > Len(a) THEN 0 ELSE (a[i] \div 2^(n % LimbBits)) % 2

BAnyBelow(a, n) ==
    LET i == n \div LimbBits + 1
    IN  \/ \E j \in 1..Min(i - 1, Len(a)) : a[j] # 0
        \/ i <= Len(a) /\ a[i] % 2^(n % LimbBits) # 0

\* floor(a / 2^s) rounded to nearest, ties to even: up when the part cut
\* off is above one half, or is one half and the quotient is odd
BShrNearestEven(a, s) ==
    IF s = 0 THEN a
    ELSE LET q == BShr(a, s)
         IN  IF BBit(a, s - 1) = 1 /\ (BAnyBelow(a, s - 1) \/ BOdd(q))
             THEN BAdd(q, BOne)
             ELSE q

(***************************************************************************)
(* Python float: a non-negative binary64 value m * 2^e with 2^52 <= m <    *)
(* 2^53, or zero (m empty), and a sign.  The payloads the handlers compute *)
(* with are non-negative, so arithmetic is defined on magnitudes; the sign *)
(* is what validation reads.  Exponents stay far inside the binary64 range *)
(* for the payloads drawn here (no overflow, no subnormal).                *)
(***************************************************************************)
Precision == 53

FZero == [neg |-> FALSE, m |-> <<>>, e |-> 0]

\* the float nearest to n * 2^e, ties to even
FRound(n, e) ==
    IF n = <<>> THEN FZero
    ELSE LET len == BBitLen(n)
         IN  IF len <= Precision
             THEN [neg |-> FALSE, m |-> BShl(n, Precision - len), e |-> e - (Precision - len)]
             ELSE LET s == len - Precision
                      q == BShrNearestEven(n, s)
                  IN  IF BBitLen(q) > Precision
                      THEN [neg |-> FALSE, m |-> BShr(q, 1), e |-> e + s + 1]
                      ELSE [neg |-> FALSE, m |-> q, e |-> e + s]

\* the float nearest to (n * 2^e) / den for an integer 0 < den < Base: the
\* quotient is taken to at least two bits more than the precision, with a
\* sticky bit for the remainder
FDivInt(n, e, den) ==
    LET need == Precision + 2 + IntBitLen(den) - BBitLen(n)
        guard == IF need > 0 THEN need ELSE 0
        d == BDivSmall(BShl(n, guard), den)
        sticky == IF d.r = 0 THEN <<>> ELSE BOne
    IN  IF n = <<>> THEN FZero
        ELSE FRound(BAdd(BShl(d.q, 1), sticky), e - guard - 1)

FAdd(x, y) ==
    IF x.m = <<>> THEN y
    ELSE IF y.m = <<>> THEN x
    ELSE LET e == IF x.e < y.e THEN x.e ELSE y.e
         IN  FRound(BAdd(BShl(x.m, x.e - e), BShl(y.m, y.e - e)), e)

FMul(x, y) == FRound(BMul(x.m, y.m), x.e + y.e)

\* x / 100.0
FDiv100(x) == FDivInt(x.m, x.e, 100)

FIsZero(x) == x.m = <<>>
FGe0(x) == FIsZero(x) \/ ~x.neg
FGt0(x) == ~FIsZero(x) /\ ~x.neg

\* round(x, 2): Python rounds the exact binary value of x to 2 decimals,
\* ties to even, and returns the float nearest to that decimal.  The result
\* is carried as its number of hundredths k (the float nearest k/100).
round2(x) ==
    LET n == BMulSmall(x.m, 100)
    IN  IF x.e >= 0 THEN BToInt(BShl(n, x.e))
        ELSE BToInt(BShrNearestEven(n, 0 - x.e))

(***************************************************************************)
(* A JSON number of a request body.  The numbers drawn here have one       *)
(* fractional digit and are written as their count of tenths t (t = 27 is  *)
(* the text 2.7); parsing gives the float nearest to t/10.                 *)
(***************************************************************************)
Abs(t) == IF t < 0 THEN 0 - t ELSE t

ParseFloat(t) ==
    LET f == FDivInt(BFromInt(Abs(t)), 0, 10)
    IN  [neg |-> t < 0, m |-> f.m, e |-> f.e]

(***************************************************************************)
(* calc_totals (src/main.py:81-94) over validated items, whose numeric     *)
(* fields are floats.                                                      *)
(***************************************************************************)
ZeroTotals == [calories |-> FZero, protein |-> FZero, carbs |-> FZero, fat |-> FZero]

\* the loop body with two accumulators reading each other's field
AddItemSwapped(totals, it) ==
    LET factor == FDiv100(it.grams)
    IN  [calories |-> FAdd(totals.calories, FMul(it.calories_per_100g, factor)),
         protein  |-> FAdd(totals.protein,  FMul(it.carbs_per_100g, factor)),
         carbs    |-> FAdd(totals.carbs,    FMul(it.protein_per_100g, factor)),
         fat      |-> FAdd(totals.fat,      FMul(it.fat_per_100g, factor))]

\* the loop body with = for +=
AddItemOverwrite(totals, it) ==
    LET factor == FDiv100(it.grams)
    IN  [calories |-> FMul(it.calories_per_100g, factor),
         protein  |-> FMul(it.protein_per_100g, factor),
         carbs    |-> FMul(it.carbs_per_100g, factor),
         fat      |-> FMul(it.fat_per_100g, factor)]

\* the loop body without the scaling by grams
AddItemUnscaled(totals, it) ==
    [calories |-> FAdd(totals.calories, it.calories_per_100g),
     protein  |-> FAdd(totals.protein,  it.protein_per_100g),
     carbs    |-> FAdd(totals.carbs,    it.carbs_per_100g),
     fat      |-> FAdd(totals.fat,      it.fat_per_100g)]

\* one pass of the loop body for item it
AddItem(totals, it) ==
    LET factor == FDiv100(it.grams)
    IN  [calories |-> FAdd(totals.calories, FMul(it.calories_per_100g, factor)),
         protein  |-> FAdd(totals.protein,  FMul(it.protein_per_100g, factor)),
         carbs    |-> FAdd(totals.carbs,    FMul(it.carbs_per_100g, factor)),
         fat      |-> FAdd(totals.fat,      FMul(it.fat_per_100g, factor))]

RECURSIVE Accumulate(_, _)
Accumulate(totals, items) ==
    IF items = <<>> THEN totals
    ELSE Accumulate(AddItem(totals, Head(items)), Tail(items))

calc_totals(items) ==
    LET totals == Accumulate(ZeroTotals, items)
    IN  [k \in DOMAIN totals |-> round2(totals[k])]

(***************************************************************************)
(* Request bodies.  A body is what the handlers' payload models receive    *)
(* once the JSON text is decoded: numbers are floats, a food name is a     *)
(* sequence of characters, an absent key is an absent record field.        *)
(***************************************************************************)
Item(name, grams, calories, protein, carbs, fat) ==
    [name |-> name, grams |-> ParseFloat(grams),
     calories_per_100g |-> ParseFloat(calories),
     protein_per_100g |-> ParseFloat(protein),
     carbs_per_100g |-> ParseFloat(carbs),
     fat_per_100g |-> ParseFloat(fat)]

\* the line item without its name key
Unnamed(it) == [k \in DOMAIN it \ {"name"} |-> it[k]]

\* line items, numbers in tenths: Rice is 200 g of 130 kcal, 2.7 g protein,
\* 28 g carbs, 0.3 g fat per 100 g
RiceJson == <<"Rice", 2000, 1300, 27, 280, 3>>
BreadJson == <<"Bread", 1850, 2650, 69, 490, 32>>
PeasJson == <<"Peas", 350, 810, 76, 140, 5>>

Decode(j) == Item(j[1], j[2], j[3], j[4], j[5], j[6])

Rice == Decode(RiceJson)
Peas == Decode(PeasJson)

NumericKeys ==
    {"grams", "calories_per_100g", "protein_per_100g", "carbs_per_100g", "fat_per_100g"}
NutrientKeys == NumericKeys \ {"grams"}

MinusOne == ParseFloat(-10)

\* Rice with one numeric field out of range
BadItems ==
    {[Rice EXCEPT ![k] = MinusOne] : k \in NumericKeys}
        \cup {[Rice EXCEPT !.grams = FZero]}

MealBodies ==
    {[items |-> <<>>],
     [items |-> <<>>, name |-> "Lunch"],
     [items |-> <<Rice>>],
     [items |-> <<Rice, Peas>>, name |-> "Lunch"],
     [items |-> <<Unnamed(Rice)>>],
     [items |-> <<Rice, Unnamed(Peas)>>, name |-> "Lunch"]}
        \cup {[items |-> <<b>>] : b \in BadItems}
        \cup {[items |-> <<Rice, [Peas EXCEPT !.grams = MinusOne]>>, name |-> "Lunch"]}

FoodBody(name, calories, protein, carbs, fat) ==
    [name |-> name,
     calories_per_100g |-> ParseFloat(calories),
     protein_per_100g |-> ParseFloat(protein),
     carbs_per_100g |-> ParseFloat(carbs),
     fat_per_100g |-> ParseFloat(fat)]

Oats == FoodBody(<<"A", "a", "b">>, 3890, 169, 663, 69)
Milk == FoodBody(<<"a", ".", "b">>, 640, 33, 48, 36)

FoodBodies ==
    {Oats, Milk} \cup {[Oats EXCEPT ![k] = MinusOne] : k \in NutrientKeys}

\* text of the query parameter: absent (<<>>) or <<text>>, text a sequence
\* of characters
Queries ==
    {<<>>, << <<>> >>, << <<"B">> >>, << <<"a", ".", "b">> >>, << <<"c">> >>,
     << <<"(">> >>}

DefaultLimit == 50
Limits == {1, DefaultLimit}

(***************************************************************************)
(* Payload models (src/main.py:60-77, src/schemas.py:15-24): a body is     *)
(* accepted when every declared field is present and within its range.     *)
(***************************************************************************)
CreateFoodPayload(body) ==
    /\ "name" \in DOMAIN body
    /\ FGe0(body.calories_per_100g)
    /\ FGe0(body.protein_per_100g)
    /\ FGe0(body.carbs_per_100g)
    /\ FGe0(body.fat_per_100g)

\* grams declared ge=0 for gt=0
CalculateMealItemGe(it) ==
    /\ "name" \in DOMAIN it
    /\ FGe0(it.grams)
    /\ FGe0(it.calories_per_100g)
    /\ FGe0(it.protein_per_100g)
    /\ FGe0(it.carbs_per_100g)
    /\ FGe0(it.fat_per_100g)

CalculateMealItem(it) ==
    /\ "name" \in DOMAIN it
    /\ FGt0(it.grams)
    /\ FGe0(it.calories_per_100g)
    /\ FGe0(it.protein_per_100g)
    /\ FGe0(it.carbs_per_100g)
    /\ FGe0(it.fat_per_100g)

CalculateMealPayload(body) ==
    \A i \in 1..Len(body.items) : CalculateMealItem(body.items[i])

\* name: Optional[str] = None; the validated value is <<>> for None
PayloadName(body) == IF "name" \in DOMAIN body THEN <<body.name>> ELSE <<>>

Food(fields) ==
    /\ FGe0(fields.calories_per_100g)
    /\ FGe0(fields.protein_per_100g)
    /\ FGe0(fields.carbs_per_100g)
    /\ FGe0(fields.fat_per_100g)

(***************************************************************************)
(* State.  food and meal are the two collections of the document store,    *)
(* in the store's natural order; req and resp are the request last handled *)
(* and its response.  input, stage, result, variant and variantResult are  *)
(* the state of the aggregator taken alone (SpecTotals).                   *)
(***************************************************************************)
VARIABLES food, meal, req, resp, input, stage, result, variant, variantResult

store == <<food, meal>>
service == <<food, meal, req, resp>>
aggregator == <<input, stage, result, variant, variantResult>>
vars == <<food, meal, req, resp, input, stage, result, variant, variantResult>>

\* documents the store holds at most, over both collections
MaxDocs == 3
MaxItems == 3

(***************************************************************************)
(* The document store client (database.py, not among the sources): per     *)
(* the specification, create inserts one document and returns the new      *)
(* identifier, list returns up to limit documents of the collection that   *)
(* match the filter, in no guaranteed order.                               *)
(***************************************************************************)
ObjectId(n) == [type |-> "ObjectId", value |-> n]
Str(id) == [type |-> "str", value |-> id.value]

create_document(collection, doc) ==
    LET id == ObjectId(Len(collection) + 1)
    IN  [collection |-> Append(collection, doc @@ [_id |-> id]), id |-> Str(id)]

Lower(c) == IF c = "A" THEN "a" ELSE IF c = "B" THEN "b" ELSE c

\* {"$regex": pattern, "$options": "i"}: an unanchored, case-insensitive
\* regular expression search; "." stands for any character and an unclosed
\* "(" makes the pattern invalid
RegexValid(pattern) == \A i \in 1..Len(pattern) : pattern[i] # "("

RegexMatchesAt(pattern, text, at) ==
    /\ at + Len(pattern) - 1 <= Len(text)
    /\ \A j \in 1..Len(pattern) :
          pattern[j] = "." \/ Lower(pattern[j]) = Lower(text[at + j - 1])

RegexSearch(pattern, text) ==
    \E at \in 1..(Len(text) + 1) : RegexMatchesAt(pattern, text, at)

\* a filter is <<>> (the empty dict) or <<pattern>> (a regex on name)
FilterValid(filter) == filter = <<>> \/ RegexValid(filter[1])
Matches(filter, doc) == filter = <<>> \/ RegexSearch(filter[1], doc.name)

\* every list the store may return: limit of the matching documents (all
\* of them when there are fewer), each once, in any order
get_documents(collection, filter, limit) ==
    LET hits == SelectSeq(collection, LAMBDA d : Matches(filter, d))
        n == Min(limit, Len(hits))
        picks == {f \in [1..n -> 1..Len(hits)] :
                     \A i, j \in 1..n : i # j => f[i] # f[j]}
    IN  {[i \in 1..n |-> hits[f[i]]] : f \in picks}

(***************************************************************************)
(* Responses: a status and a body; a list is the body's docs field.        *)
(***************************************************************************)
Ok(body) == [status |-> 200, body |-> body]
HTTPException(status, detail) == [status |-> status, body |-> [detail |-> detail]]
RequestValidationError == HTTPException(422, "validation error")
ServerError == HTTPException(500, "Internal Server Error")

None == [type |-> "NoneType"]

\* d["_id"] = str(d["_id"]) if "_id" in d else None
WithStrId(d) ==
    IF "_id" \in DOMAIN d THEN [d EXCEPT !._id = Str(d._id)]
    ELSE d @@ [_id |-> None]

(***************************************************************************)
(* Handlers (src/main.py:98-147).  up says whether the store accepts the   *)
(* write the handler makes; a write that fails surfaces as a server error. *)
(***************************************************************************)
model_dump(m, keys) == [k \in keys |-> m[k]]

FoodKeys == NutrientKeys \cup {"name"}
ItemKeys == NumericKeys \cup {"name"}

\* create_food writing to the meal collection
create_food_in_meal(payload, up) ==
    LET fields == model_dump(payload, FoodKeys)
        created == create_document(meal, fields)
    IN  IF Food(fields) /\ up
        THEN /\ meal' = created.collection
             /\ food' = food
             /\ resp' = Ok([id |-> created.id])
        ELSE /\ resp' = ServerError
             /\ UNCHANGED store

create_food(payload, up) ==
    LET fields == model_dump(payload, FoodKeys)
        created == create_document(food, fields)
    IN  IF Food(fields) /\ up
        THEN /\ food' = created.collection
             /\ meal' = meal
             /\ resp' = Ok([id |-> created.id])
        ELSE /\ resp' = ServerError
             /\ UNCHANGED store

list_foods(query, limit) ==
    LET filter_dict == IF query # <<>> /\ query[1] # <<>> THEN <<query[1]>> ELSE <<>>
    IN  /\ IF FilterValid(filter_dict)
           THEN \E docs \in get_documents(food, filter_dict, limit) :
                    resp' = Ok([docs |-> [i \in 1..Len(docs) |-> WithStrId(docs[i])]])
           ELSE resp' = ServerError
        /\ UNCHANGED store

\* calculate_meal that also stores what it computed
calculate_meal_persisting(payload) ==
    IF payload.items = <<>>
    THEN /\ resp' = HTTPException(400, "No items provided")
         /\ UNCHANGED store
    ELSE LET totals == calc_totals(payload.items)
         IN  /\ resp' = Ok([name |-> payload.name, totals |-> totals])
             /\ meal' = create_document(meal, [items |-> payload.items]).collection
             /\ food' = food

calculate_meal(payload) ==
    /\ IF payload.items = <<>>
       THEN resp' = HTTPException(400, "No items provided")
       ELSE resp' = Ok([name |-> payload.name, totals |-> calc_totals(payload.items)])
    /\ UNCHANGED store

\* payload.name or "Meal"
NameOrDefault(name) == IF name = <<>> \/ name = <<"">> THEN "Meal" ELSE name[1]

\* the document with two totals under each other's key
meal_doc_swapped(payload, totals) ==
    [name |-> NameOrDefault(payload.name),
     items |-> [i \in 1..Len(payload.items) |-> model_dump(payload.items[i], ItemKeys)],
     total_calories |-> totals.calories,
     total_protein |-> totals.carbs,
     total_carbs |-> totals.protein,
     total_fat |-> totals.fat]

meal_doc(payload, totals) ==
    [name |-> NameOrDefault(payload.name),
     items |-> [i \in 1..Len(payload.items) |-> model_dump(payload.items[i], ItemKeys)],
     total_calories |-> totals.calories,
     total_protein |-> totals.protein,
     total_carbs |-> totals.carbs,
     total_fat |-> totals.fat]

\* save_meal without the check for an empty item list
save_meal_unchecked(payload, up) ==
    LET totals == calc_totals(payload.items)
        created == create_document(meal, meal_doc(payload, totals))
    IN  IF up
        THEN /\ meal' = created.collection
             /\ food' = food
             /\ resp' = Ok([id |-> created.id, totals |-> totals])
        ELSE /\ resp' = ServerError
             /\ UNCHANGED store

save_meal(payload, up) ==
    IF payload.items = <<>>
    THEN /\ resp' = HTTPException(400, "No items provided")
         /\ UNCHANGED store
    ELSE LET totals == calc_totals(payload.items)
             created == create_document(meal, meal_doc(payload, totals))
         IN  IF up
             THEN /\ meal' = created.collection
                  /\ food' = food
                  /\ resp' = Ok([id |-> created.id, totals |-> totals])
             ELSE /\ resp' = ServerError
                  /\ UNCHANGED store

list_meals(limit) ==
    /\ \E docs \in get_documents(meal, <<>>, limit) :
          resp' = Ok([docs |-> [i \in 1..Len(docs) |-> WithStrId(docs[i])]])
    /\ UNCHANGED store

(***************************************************************************)
(* Routes: the body is validated against the handler's payload model       *)
(* before the handler runs; a body that fails is answered 422.             *)
(***************************************************************************)
MealPayload(body) == [items |-> body.items, name |-> PayloadName(body)]

PostFoods(body, up) ==
    /\ req' = [op |-> "POST /api/foods", body |-> body]
    /\ IF CreateFoodPayload(body)
       THEN /\ up => Len(food) + Len(meal) < MaxDocs
            /\ create_food(body, up)
       ELSE /\ resp' = RequestValidationError
            /\ UNCHANGED store
    /\ UNCHANGED aggregator

GetFoods(query, limit) ==
    /\ req' = [op |-> "GET /api/foods", query |-> query, limit |-> limit]
    /\ list_foods(query, limit)
    /\ UNCHANGED aggregator

PostMealsCalculate(body) ==
    /\ req' = [op |-> "POST /api/meals/calculate", body |-> body]
    /\ IF CalculateMealPayload(body)
       THEN calculate_meal(MealPayload(body))
       ELSE /\ resp' = RequestValidationError
            /\ UNCHANGED store
    /\ UNCHANGED aggregator

PostMealsSave(body, up) ==
    /\ req' = [op |-> "POST /api/meals/save", body |-> body]
    /\ IF CalculateMealPayload(body)
       THEN /\ (up /\ body.items # <<>>) => Len(food) + Len(meal) < MaxDocs
            /\ save_meal(MealPayload(body), up)
       ELSE /\ resp' = RequestValidationError
            /\ UNCHANGED store
    /\ UNCHANGED aggregator

GetMeals(limit) ==
    /\ req' = [op |-> "GET /api/meals", limit |-> limit]
    /\ list_meals(limit)
    /\ UNCHANGED aggregator

NoRequest == [op |-> "none"]
NoResponse == [status |-> 0, body |-> [detail |-> "none"]]
NoTotals == [calories |-> 0, protein |-> 0, carbs |-> 0, fat |-> 0]

InitService ==
    /\ food = <<>>
    /\ meal = <<>>
    /\ req = NoRequest
    /\ resp = NoResponse

Init ==
    /\ InitService
    /\ input = <<>>
    /\ stage = "off"
    /\ result = NoTotals
    /\ variant = <<>>
    /\ variantResult = NoTotals

Next ==
    \/ \E body \in FoodBodies, up \in BOOLEAN : PostFoods(body, up)
    \/ \E query \in Queries, limit \in Limits : GetFoods(query, limit)
    \/ \E body \in MealBodies : PostMealsCalculate(body)
    \/ \E body \in MealBodies, up \in BOOLEAN : PostMealsSave(body, up)
    \/ \E limit \in Limits : GetMeals(limit)

Spec == Init /\ [][Next]_vars

(***************************************************************************)
(* The aggregator alone: calc_totals applied to a sequence of valid line   *)
(* items, then to a permutation of it and to it with every grams doubled.  *)
(***************************************************************************)
CatalogueJson == {RiceJson, BreadJson, PeasJson}

ItemSeqs == UNION {[1..n -> CatalogueJson] : n \in 1..MaxItems}

DecodeAll(js) == [i \in 1..Len(js) |-> Decode(js[i])]

DoubleGrams(j) == [j EXCEPT ![2] = 2 * j[2]]

InitTotals ==
    /\ InitService
    /\ input \in ItemSeqs
    /\ stage = "input"
    /\ result = NoTotals
    /\ variant = <<>>
    /\ variantResult = NoTotals

Aggregate ==
    /\ stage = "input"
    /\ CalculateMealPayload([items |-> DecodeAll(input)])
    /\ result' = calc_totals(DecodeAll(input))
    /\ stage' = "totals"
    /\ UNCHANGED <<input, variant, variantResult>>
    /\ UNCHANGED service

AggregatePermuted ==
    /\ stage = "totals"
    /\ \E p \in Permutations(1..Len(input)) :
          /\ variant' = [i \in 1..Len(input) |-> input[p[i]]]
          /\ variantResult' = calc_totals(DecodeAll(variant'))
    /\ stage' = "permuted"
    /\ UNCHANGED <<input, result>>
    /\ UNCHANGED service

AggregateDoubled ==
    /\ stage = "totals"
    /\ variant' = [i \in 1..Len(input) |-> DoubleGrams(input[i])]
    /\ variantResult' = calc_totals(DecodeAll(variant'))
    /\ stage' = "doubled"
    /\ UNCHANGED <<input, result>>
    /\ UNCHANGED service

NextTotals == Aggregate \/ AggregatePermuted \/ AggregateDoubled

SpecTotals == InitTotals /\ [][NextTotals]_vars

(***************************************************************************)
(* Vocabulary of the properties.                                           *)
(***************************************************************************)
TotalKeys == {"calories", "protein", "carbs", "fat"}

\* position of a total's per-100g value in a JSON line item
FieldAt(k) ==
    IF k = "calories" THEN 3 ELSE IF k = "protein" THEN 4 ELSE IF k = "carbs" THEN 5 ELSE 6

\* the exact sum of value * grams / 100 over the items, as decimals, in
\* units of 1/10000 (grams and values are counts of tenths)
RECURSIVE ExactSum(_, _)
ExactSum(js, k) ==
    IF js = <<>> THEN 0
    ELSE Head(js)[2] * Head(js)[FieldAt(k)] + ExactSum(Tail(js), k)

\* n / 100 rounded to an integer, ties to even and ties away from zero
HalfEven(n) ==
    LET q == n \div 100
        r == n % 100
    IN  IF r > 50 \/ (r = 50 /\ q % 2 = 1) THEN q + 1 ELSE q

HalfUp(n) == (n + 50) \div 100

Aggregated == stage \in {"totals", "permuted", "doubled"}

IsPrefix(a, b) == Len(a) <= Len(b) /\ SubSeq(b, 1, Len(a)) = a

Negative(x) == x.neg /\ x.m # <<>>
Positive(x) == ~x.neg /\ x.m # <<>>

IsMealPost(r) == r.op \in {"POST /api/meals/calculate", "POST /api/meals/save"}

EmptyItems(r) == IsMealPost(r) /\ r.body.items = <<>>

ItemOutOfRange(it) ==
    \/ ~Positive(it.grams)
    \/ \E k \in NutrientKeys : Negative(it[k])

OutOfRange(r) ==
    \/ r.op = "POST /api/foods" /\ \E k \in NutrientKeys : Negative(r.body[k])
    \/ IsMealPost(r) /\ \E i \in 1..Len(r.body.items) : ItemOutOfRange(r.body.items[i])

ClientError(r) == r.status \in 400..499

NothingReturned(r) == "id" \notin DOMAIN r.body /\ "totals" \notin DOMAIN r.body

DocTotals(d) ==
    [calories |-> d.total_calories, protein |-> d.total_protein,
     carbs |-> d.total_carbs, fat |-> d.total_fat]

\* text contains part as a literal substring, letter case ignored
ContainsIgnoreCase(text, part) ==
    \E at \in 1..(Len(text) + 1) :
        /\ at + Len(part) - 1 <= Len(text)
        /\ \A j \in 1..Len(part) : Lower(part[j]) = Lower(text[at + j - 1])

C2_EmptyRejected ==
    [][EmptyItems(req') =>
          /\ resp'.status = 400
          /\ NothingReturned(resp')
          /\ store' = store]_vars

C2_Witness ==
    /\ req.op = "POST /api/meals/save"
    /\ req.body.items = <<>>
    /\ resp.status = 400
    /\ Len(meal) >= 1

(***************************************************************************)
(* C3: a request carrying a negative nutrient value or a grams <= 0 is     *)
(* answered with a client error, returns neither an id nor totals, and     *)
(* leaves both collections as they were.                                   *)
(***************************************************************************)
C3_OutOfRangeRejected ==
    [][OutOfRange(req') =>
          /\ ClientError(resp')
          /\ NothingReturned(resp')
          /\ store' = store]_vars

C3_Witness ==
    /\ req.op = "POST /api/meals/save"
    /\ Len(req.body.items) = 2
    /\ OutOfRange(req)
    /\ ClientError(resp)
    /\ Len(meal) >= 1

(***************************************************************************)
(* C4: after a successful save the meal collection holds a document with   *)
(* the identifier and the totals of the response and the submitted items;  *)
(* a listing of meals whose limit covers the collection holds every stored *)
(* meal, its identifier a string.                                          *)
(***************************************************************************)
C4_SavedMealListed ==
    /\ (req.op = "POST /api/meals/save" /\ resp.status = 200) =>
          \E i \in 1..Len(meal) :
              /\ Str(meal[i]._id) = resp.body.id
              /\ DocTotals(meal[i]) = resp.body.totals
              /\ meal[i].items = req.body.items
    /\ (req.op = "GET /api/meals" /\ resp.status = 200 /\ req.limit >= Len(meal)) =>
          \A i \in 1..Len(meal) :
              \E j \in 1..Len(resp.body.docs) :
                  /\ resp.body.docs[j]._id.type = "str"
                  /\ resp.body.docs[j] = [meal[i] EXCEPT !._id = Str(meal[i]._id)]

C4_Witness ==
    /\ req.op = "GET /api/meals"
    /\ resp.status = 200
    /\ Len(meal) >= 2
    /\ req.limit >= Len(meal)
    /\ Len(resp.body.docs) = Len(meal)

(***************************************************************************)
(* C5: a calculate request leaves both collections as they were, and the   *)
(* totals it returns are those save returns for the same items: those of   *)
(* every stored meal with these items, and those of a save that follows.   *)
(***************************************************************************)
C5_CalculateIsPure ==
    [][/\ req'.op = "POST /api/meals/calculate" => store' = store
       /\ (req'.op = "POST /api/meals/calculate" /\ resp'.status = 200) =>
             \A i \in 1..Len(meal') :
                 meal'[i].items = req'.body.items =>
                     DocTotals(meal'[i]) = resp'.body.totals
       /\ (/\ req.op = "POST /api/meals/calculate" /\ resp.status = 200
           /\ req'.op = "POST /api/meals/save" /\ resp'.status = 200
           /\ req'.body.items = req.body.items) =>
             resp'.body.totals = resp.body.totals]_vars

C5_Witness ==
    /\ req.op = "POST /api/meals/calculate"
    /\ resp.status = 200
    /\ \E i \in 1..Len(meal) :
          meal[i].items = req.body.items /\ DocTotals(meal[i]) = resp.body.totals

(***************************************************************************)
(* C6 as stated: a listing of foods with a query returns at most limit     *)
(* documents, each a stored food whose name contains the query text as a   *)
(* literal substring whatever its letter case, and an empty list, not an   *)
(* error, when none does.                                                  *)
(***************************************************************************)
C6_LiteralSubstring ==
    (req.op = "GET /api/foods" /\ req.query # <<>>) =>
        /\ resp.status = 200
        /\ Len(resp.body.docs) <= req.limit
        /\ \A j \in 1..Len(resp.body.docs) :
              /\ \E i \in 1..Len(food) : resp.body.docs[j] = WithStrId(food[i])
              /\ ContainsIgnoreCase(resp.body.docs[j].name, req.query[1])

(***************************************************************************)
(* C7 as stated: a calculate or save request whose items are in range is   *)
(* accepted whether or not its items carry a name, and calculate answers   *)
(* it with totals.                                                         *)
(***************************************************************************)
C7_NameOptional ==
    (IsMealPost(req) /\ req.body.items # <<>> /\ ~OutOfRange(req)) =>
        /\ ~ClientError(resp)
        /\ req.op = "POST /api/meals/calculate" => "totals" \in DOMAIN resp.body

C9_DoublingDoubles ==
    stage = "doubled" =>
        \A k \in TotalKeys : Abs(variantResult[k] - 2 * result[k]) <= 1

C9_Witness ==
    /\ stage = "doubled"
    /\ Len(input) >= 2
    /\ \E k \in TotalKeys : variantResult[k] # 2 * result[k]

(***************************************************************************)
(* C10: every step keeps every stored document in place and unchanged; a   *)
(* collection grows, by one document holding what was submitted, exactly   *)
(* when a POST to it succeeds, and nothing else changes a collection.      *)
(***************************************************************************)
C10_AppendOnly ==
    [][/\ IsPrefix(food, food')
       /\ IsPrefix(meal, meal')
       /\ Len(food') + Len(meal') <= Len(food) + Len(meal) + 1
       /\ Len(food') = Len(food) + 1 <=>
             (req'.op = "POST /api/foods" /\ resp'.status = 200)
       /\ Len(meal') = Len(meal) + 1 <=>
             (req'.op = "POST /api/meals/save" /\ resp'.status = 200)
       /\ Len(food') = Len(food) + 1 =>
             [k \in FoodKeys |-> food'[Len(food')][k]] = req'.body
       /\ Len(meal') = Len(meal) + 1 =>
             meal'[Len(meal')].items = req'.body.items]_vars

C10_Witness ==
    /\ Len(food) >= 2
    /\ Len(meal) >= 1
    /\ req.op = "GET /api/foods"
    /\ resp.status = 200
    /\ Len(resp.body.docs) >= 2

====
